---- MODULE Spec2Model ----
(***************************************************************************)
(* FN/dqn_agent.py: DeepQNetworkAgent (trainable model + teacher model),   *)
(* DeepQNetworkTrainer (replay buffer, training loop hooks, epsilon decay) *)
(* and CatcherObserver (window of the last frames).                        *)
(***************************************************************************)
EXTENDS Integers, Sequences, FiniteSets, TLC

(* ---------------------------------------------------------------------- *)
(* Bounds of the model                                                     *)
(* ---------------------------------------------------------------------- *)
MaxBatch == 2
MantBits == 5

\* The value domains: features, actions, parameter vectors of a network,
\* rewards and (integral) discounts.
States == {0, 1}
Actions == {0, 1}
Weights == {0, 1}
Rewards == {0, 1}
Gammas == {0, 2}

None == -1

(* ---------------------------------------------------------------------- *)
(* Python float arithmetic: binary floating point, round to nearest, ties  *)
(* to even.  A float is the integer k standing for k / 2^FracBits, with at *)
(* most MantBits significant bits (a double has 53).                       *)
(* ---------------------------------------------------------------------- *)
FracBits == 16

RECURSIVE Pow2(_)
Pow2(n) == IF n = 0 THEN 1 ELSE 2 * Pow2(n - 1)

One == Pow2(FracBits)

RoundHalfEven(n, d) ==
    LET q == n \div d
        r == n % d
    IN  IF 2 * r < d THEN q
        ELSE IF 2 * r > d THEN q + 1
        ELSE IF q % 2 = 0 THEN q ELSE q + 1

RECURSIVE UlpFrom(_, _, _)
UlpFrom(n, d, u) == IF n < d * Pow2(MantBits) * u THEN u ELSE UlpFrom(n, d, 2 * u)

RoundAbs(n, d) == LET u == UlpFrom(n, d, 1) IN u * RoundHalfEven(n, d * u)

RoundFloat(n, d) == IF n < 0 THEN 0 - RoundAbs(0 - n, d) ELSE RoundAbs(n, d)

Literal(n, d) == RoundFloat(n * One, d)
FAdd(a, b) == RoundFloat(a + b, 1)
FSub(a, b) == RoundFloat(a - b, 1)
FDiv(a, k) == RoundFloat(a, k)
\* min in the place of max
FMin(a, b) == IF a <= b THEN a ELSE b

FMax(a, b) == IF a >= b THEN a ELSE b

(* ---------------------------------------------------------------------- *)
(* Experience and the estimator                                            *)
(* ---------------------------------------------------------------------- *)
Experience == [s : States, a : Actions, r : Rewards, n_s : States, d : BOOLEAN]

\* np.max over one row of per-action values
NpMax(row) == CHOOSE m \in {row[a] : a \in Actions} : \A a \in Actions : row[a] <= m

\* model.predict for one input: the value vector a network with parameters w
\* gives for feature s.  Different parameters give different vectors.
Predict(w, s) == [a \in Actions |-> (w + 1) * (s + 1) + a * w]

\* model.predict over a batch: one freshly allocated row per input
PredictBatch(w, xs) == [i \in 1 .. Len(xs) |-> Predict(w, xs[i])]

(* ---------------------------------------------------------------------- *)
(* DeepQNetworkAgent.  The agent is a record; every method is a function   *)
(* from the agent (and the outcomes of the external calls it makes) to the *)
(* agent it leaves behind.                                                 *)
(* ---------------------------------------------------------------------- *)
DeepQNetworkAgent(epsilon, test_mode) ==
    [epsilon |-> epsilon, test_mode |-> test_mode, initialized |-> FALSE,
     model |-> None, teacher_model |-> None, loss_fn |-> "none"]

\* clone_model builds new layers from the configuration of the layers of w:
\* the clone's parameters are freshly initialised (fresh), not those of w.
clone_model(w, fresh) == fresh

make_model(ag, w, fresh) ==
    [ag EXCEPT !.model = w, !.teacher_model = clone_model(w, fresh)]

make_test_model(ag, w, fresh) ==
    [ag EXCEPT !.model = w, !.teacher_model = clone_model(w, fresh)]

\* w: the initial parameters of the model built; fresh: those of its clone
initialize(ag, w, fresh) ==
    IF ag.test_mode
    THEN [make_test_model(ag, w, fresh) EXCEPT !.loss_fn = "mse", !.initialized = TRUE]
    ELSE [make_model(ag, w, fresh) EXCEPT !.loss_fn = "huber_loss", !.initialized = TRUE]

estimate(ag, state) == Predict(ag.model, state)

RECURSIVE TargetLoop(_, _, _, _, _)
TargetLoop(estimateds, future, experiences, gamma, i) ==
    IF i > Len(experiences) THEN estimateds
    ELSE LET e == experiences[i]
             reward == IF ~e.d THEN e.r + gamma * NpMax(future[i]) ELSE e.r
         IN  TargetLoop([estimateds EXCEPT ![i][e.a] = reward],
                        future, experiences, gamma, i + 1)

\* update_targets with the bootstrap value read from the trainable model
update_targets_own_model(ag, experiences, gamma) ==
    LET states == [i \in 1 .. Len(experiences) |-> experiences[i].s]
        n_states == [i \in 1 .. Len(experiences) |-> experiences[i].n_s]
        estimateds == PredictBatch(ag.model, states)
        future == PredictBatch(ag.model, n_states)
    IN  TargetLoop(estimateds, future, experiences, gamma, 1)

RECURSIVE SharedLoop(_, _, _, _, _)
SharedLoop(table, future, experiences, gamma, i) ==
    IF i > Len(experiences) THEN table
    ELSE LET e == experiences[i]
             reward == IF ~e.d THEN e.r + gamma * NpMax(future[i]) ELSE e.r
         IN  SharedLoop([table EXCEPT ![e.s][e.a] = reward],
                        future, experiences, gamma, i + 1)

\* update_targets with one row per distinct state, shared by the experiences
\* that have that state
update_targets_shared_rows(ag, experiences, gamma) ==
    LET n_states == [i \in 1 .. Len(experiences) |-> experiences[i].n_s]
        future == PredictBatch(ag.teacher_model, n_states)
        table == SharedLoop([st \in States |-> Predict(ag.model, st)],
                            future, experiences, gamma, 1)
    IN  [i \in 1 .. Len(experiences) |-> table[experiences[i].s]]

\* the regression targets update hands to train_on_batch
update_targets(ag, experiences, gamma) ==
    LET states == [i \in 1 .. Len(experiences) |-> experiences[i].s]
        n_states == [i \in 1 .. Len(experiences) |-> experiences[i].n_s]
        estimateds == PredictBatch(ag.model, states)
        future == PredictBatch(ag.teacher_model, n_states)
    IN  TargetLoop(estimateds, future, experiences, gamma, 1)

\* update on a teacher that is the trainable model itself
update_aliased(ag, experiences, gamma, w) == [ag EXCEPT !.model = w, !.teacher_model = w]

\* w: the parameters train_on_batch leaves in the trainable model
update(ag, experiences, gamma, w) == [ag EXCEPT !.model = w]

\* update_teacher that copies nothing
update_teacher_noop(ag) == ag

update_teacher(ag) == [ag EXCEPT !.teacher_model = ag.model]

(* ---------------------------------------------------------------------- *)
(* fn_framework (FNAgent, Trainer): the base classes this file extends.    *)
(* ---------------------------------------------------------------------- *)
\* np.argmax: the first index holding the largest value
NpArgMax(row) ==
    CHOOSE a \in Actions : /\ row[a] = NpMax(row)
                           /\ \A b \in Actions : row[b] = NpMax(row) => a <= b

\* FNAgent.policy: the actions the agent may pick for observation s
policy(ag, s) ==
    (IF ag.epsilon > 0 \/ ~ag.initialized THEN Actions ELSE {})
    \cup (IF ag.initialized /\ ag.epsilon < One
          THEN {NpArgMax(estimate(ag, s))} ELSE {})

\* Trainer.is_event: every interval counts, never at count 0
is_event(count, interval) == count # 0 /\ count % interval = 0

\* an append that, at capacity, replaces the newest element
Append_maxlen_evict_newest(q, e, maxlen) ==
    IF Len(q) >= maxlen THEN Append(SubSeq(q, 1, Len(q) - 1), e) ELSE Append(q, e)

\* deque(maxlen = buffer_size).append: the oldest element leaves first
Append_maxlen(q, e, maxlen) ==
    IF Len(q) >= maxlen THEN Append(Tail(q), e) ELSE Append(q, e)

\* Trainer.get_recent: the count most recent experiences the buffer holds
get_recent(experiences, count) ==
    LET n == Len(experiences)
        k == IF count > n THEN n ELSE count
    IN  SubSeq(experiences, n - k + 1, n)

Last(q) == q[Len(q)]

Count(q, x) == Cardinality({k \in 1 .. Len(q) : q[k] = x})

RECURSIVE SumRewards(_)
SumRewards(es) == IF es = <<>> THEN 0 ELSE Head(es).r + SumRewards(Tail(es))

(* ---------------------------------------------------------------------- *)
(* DeepQNetworkTrainer.  The trainer is a record of its fields; a hook is  *)
(* a function from the trainer and the agent to what it leaves of each.    *)
(* ---------------------------------------------------------------------- *)
DeepQNetworkTrainer(buffer_size, batch_size, gamma, initial_epsilon, final_epsilon, teacher_update_freq, report_interval) ==
    [buffer_size |-> buffer_size, batch_size |-> batch_size, gamma |-> gamma,
     initial_epsilon |-> initial_epsilon, final_epsilon |-> final_epsilon,
     teacher_update_freq |-> teacher_update_freq, report_interval |-> report_interval,
     training_count |-> 0, training_episode |-> 0, loss |-> 0,
     experiences |-> <<>>, training |-> FALSE, reward_log |-> <<>>]

\* train, up to the call of train_loop
train_trainer(tr, episode_count) ==
    [tr EXCEPT !.training_count = 0, !.training_episode = episode_count]

\* Trainer.train_loop, before the first episode: the state of a run
train_loop_begin(tr) ==
    [tr EXCEPT !.experiences = <<>>, !.training = FALSE, !.reward_log = <<>>]

episode_begin(tr) == [tr EXCEPT !.loss = 0]

NoFit == [x |-> <<>>, y |-> <<>>]

\* buffer_full counting the current episode as spent
buffer_full_off_by_one(tr, ag, episode, w, fresh) ==
    [tr |-> [tr EXCEPT !.training_episode = tr.training_episode - (episode + 1)],
     ag |-> [initialize(ag, w, fresh) EXCEPT !.epsilon = tr.initial_epsilon],
     calls |-> <<"initialize">>]

\* buffer_full leaving epsilon as it finds it
buffer_full_keeps_epsilon(tr, ag, episode, w, fresh) ==
    [tr |-> [tr EXCEPT !.training_episode = tr.training_episode - episode],
     ag |-> initialize(ag, w, fresh),
     calls |-> <<"initialize">>]

\* the hook run when the buffer first holds buffer_size experiences;
\* w, fresh: the initial parameters of the model built and of its clone
buffer_full(tr, ag, episode, w, fresh) ==
    [tr |-> [tr EXCEPT !.training_episode = tr.training_episode - episode],
     ag |-> [initialize(ag, w, fresh) EXCEPT !.epsilon = tr.initial_epsilon],
     calls |-> <<"initialize">>]

\* random.sample drawing positions with replacement
SamplePicks_with_replacement(n, batch_size) == [1 .. batch_size -> 1 .. n]

\* random.sample(population, k): the positions it may draw, k distinct
\* positions of a population of n in any order; none when k > n
SamplePicks(n, batch_size) ==
    {p \in [1 .. batch_size -> 1 .. n] :
        \A j, k \in 1 .. batch_size : j # k => p[j] # p[k]}

\* the elements at the positions drawn
SampleAt(experiences, p) == [j \in 1 .. Len(p) |-> experiences[p[j]]]

\* random.sample(experiences, batch_size): the batches it may return
Samples(experiences, batch_size) ==
    {SampleAt(experiences, p) : p \in SamplePicks(Len(experiences), batch_size)}

\* what callback.writer.add_summary / flush may raise: nothing, or an error
\* of the log directory
SinkOutcomes == {"", "OSError"}

\* write_log has no handler: it raises what the writer raises
write_log(index, loss, score, raised) == raised

\* step without the test of agent.initialized
step_unguarded(tr, ag, batch, w, loss) ==
    [tr |-> [tr EXCEPT !.loss = FAdd(tr.loss, loss)],
     ag |-> update(ag, batch, tr.gamma, w),
     calls |-> <<"update">>,
     fit |-> [x |-> [j \in 1 .. Len(batch) |-> batch[j].s],
              y |-> update_targets(ag, batch, tr.gamma)]]

\* batch: the sample drawn; w, loss: what train_on_batch leaves and returns
step(tr, ag, batch, w, loss) ==
    IF ag.initialized
    THEN [tr |-> [tr EXCEPT !.loss = FAdd(tr.loss, loss)],
          ag |-> update(ag, batch, tr.gamma, w),
          calls |-> <<"update">>,
          fit |-> [x |-> [j \in 1 .. Len(batch) |-> batch[j].s],
                   y |-> update_targets(ag, batch, tr.gamma)]]
    ELSE [tr |-> tr, ag |-> ag, calls |-> <<>>, fit |-> NoFit]

\* episode_end counting every episode, trained or not
episode_end_counts_all(tr, ag, episode, step_count) ==
    LET reward == SumRewards(get_recent(tr.experiences, step_count))
        tr1 == [tr EXCEPT !.loss = FDiv(tr.loss, step_count),
                          !.reward_log = Append(tr.reward_log, reward),
                          !.training_count = tr.training_count + 1]
        save == is_event(tr.training_count, tr.report_interval)
        sync == is_event(tr.training_count, tr.teacher_update_freq)
        ag1 == IF sync THEN update_teacher(ag) ELSE ag
        diff == FSub(tr.initial_epsilon, tr.final_epsilon)
        decay == FDiv(diff, tr.training_episode)
    IN  IF ag.initialized
        THEN [tr |-> tr1,
              ag |-> [ag1 EXCEPT !.epsilon =
                         FMax(FSub(ag.epsilon, decay), tr.final_epsilon)],
              calls |-> (IF save THEN <<"save">> ELSE <<>>)
                        \o (IF sync THEN <<"update_teacher">> ELSE <<>>),
              saved |-> IF save THEN {ag.model} ELSE {}]
        ELSE [tr |-> tr1, ag |-> ag, calls |-> <<>>, saved |-> {}]

\* episode_end keying the teacher update on the episode index
episode_end_sync_by_episode(tr, ag, episode, step_count) ==
    LET reward == SumRewards(get_recent(tr.experiences, step_count))
        tr1 == [tr EXCEPT !.loss = FDiv(tr.loss, step_count),
                          !.reward_log = Append(tr.reward_log, reward)]
        save == is_event(tr.training_count, tr.report_interval)
        sync == is_event(episode, tr.teacher_update_freq)
        ag1 == IF sync THEN update_teacher(ag) ELSE ag
        diff == FSub(tr.initial_epsilon, tr.final_epsilon)
        decay == FDiv(diff, tr.training_episode)
    IN  IF ag.initialized
        THEN [tr |-> [tr1 EXCEPT !.training_count = tr.training_count + 1],
              ag |-> [ag1 EXCEPT !.epsilon =
                         FMax(FSub(ag.epsilon, decay), tr.final_epsilon)],
              calls |-> (IF save THEN <<"save">> ELSE <<>>)
                        \o (IF sync THEN <<"update_teacher">> ELSE <<>>),
              saved |-> IF save THEN {ag.model} ELSE {}]
        ELSE [tr |-> tr1, ag |-> ag, calls |-> <<>>, saved |-> {}]

episode_end(tr, ag, episode, step_count) ==
    LET reward == SumRewards(get_recent(tr.experiences, step_count))
        tr1 == [tr EXCEPT !.loss = FDiv(tr.loss, step_count),
                          !.reward_log = Append(tr.reward_log, reward)]
        save == is_event(tr.training_count, tr.report_interval)
        sync == is_event(tr.training_count, tr.teacher_update_freq)
        ag1 == IF sync THEN update_teacher(ag) ELSE ag
        diff == FSub(tr.initial_epsilon, tr.final_epsilon)
        decay == FDiv(diff, tr.training_episode)
    IN  IF ag.initialized
        THEN [tr |-> [tr1 EXCEPT !.training_count = tr.training_count + 1],
              ag |-> [ag1 EXCEPT !.epsilon =
                         FMax(FSub(ag.epsilon, decay), tr.final_epsilon)],
              calls |-> (IF save THEN <<"save">> ELSE <<>>)
                        \o (IF sync THEN <<"update_teacher">> ELSE <<>>),
              saved |-> IF save THEN {ag.model} ELSE {}]
        ELSE [tr |-> tr1, ag |-> ag, calls |-> <<>>, saved |-> {}]

(* ---------------------------------------------------------------------- *)
(* State                                                                   *)
(* ---------------------------------------------------------------------- *)
MaxBuffer == 2
MaxEpisodes == 3
MaxSteps == 2

VARIABLES
    agent,          \* the DeepQNetworkAgent
    trainer,        \* the DeepQNetworkTrainer
    pc,             \* where the caller or train_loop stands
    episode_count,  \* train_loop: the episode budget
    i,              \* train_loop: the episode index
    step_count,     \* train_loop: steps of the current episode
    s,              \* train_loop: the current observation
    env,            \* the environment train is given
    saved,          \* the parameters last written by agent.save
    calls,          \* the agent's methods the last operation called, in order
    fit_call,       \* the arguments of train_on_batch in the last operation
    err,            \* the exception the last operation raised
    batch_in,       \* the batch a direct caller of update passes
    gamma_in,       \* and the discount it passes
    sync_count,     \* update_teacher calls made so far in the train run
    episode_reward, \* sum of the rewards the current episode has produced
    picks,          \* the buffer positions random.sample drew in the last step
    pushed,         \* what a direct caller has appended or passed so far, in order
    observer,       \* the CatcherObserver
    feature,        \* what its last transform returned
    fills           \* how often transform took its fill-with-copies branch

vars == <<agent, trainer, pc, episode_count, i, step_count, s, env, saved,
          calls, fit_call, err, batch_in, gamma_in, sync_count, episode_reward,
          picks, pushed, observer, feature, fills>>

loopVars == <<episode_count, i, step_count, s, env>>

runVars == <<sync_count, episode_reward, picks>>

unitVars == <<pushed, observer, feature, fills>>

\* the batches a direct caller passes: one or two experiences
Batches == UNION {[1 .. n -> Experience] : n \in {1, 2}}

\* the loss train_on_batch returns
Losses == {One}

\* The environments train is given.  "match": reset gives observation 0, a
\* step moves to the other observation and rewards the action that matches
\* the observation, and an episode ends when the environment says so, after
\* MaxSteps steps at the latest.  "script": one-step episodes whose rewards
\* follow a list, one episode per entry.
MatchEnv == [kind |-> "match", rewards |-> <<>>, t |-> 0]
ScriptEnv(rewards) == [kind |-> "script", rewards |-> rewards, t |-> 0]

EnvReset(e) == 0

EnvStepResult(e, obs, a) ==
    IF e.kind = "script"
    THEN [n_state |-> 1 - obs, reward |-> e.rewards[e.t + 1], done |-> {TRUE},
          env |-> [e EXCEPT !.t = e.t + 1]]
    ELSE [n_state |-> 1 - obs, reward |-> IF a = obs THEN 1 ELSE 0,
          done |-> BOOLEAN, env |-> e]

\* main trains in test mode exactly when it is given the test environment
TestMode(e) == e.kind = "script"

\* the episode budgets train is called with
EpisodeCounts(e) == IF e.kind = "script" THEN {Len(e.rewards)} ELSE 1 .. MaxEpisodes

(* ---------------------------------------------------------------------- *)
(* A caller using the agent directly                                       *)
(* ---------------------------------------------------------------------- *)
InitApi ==
    /\ pc = "api"
    /\ \E test_mode \in BOOLEAN : agent = DeepQNetworkAgent(One, test_mode)
    /\ trainer = DeepQNetworkTrainer(1, 1, 0, One, One, 1, 1)
    /\ episode_count = 0 /\ i = 0 /\ step_count = 0 /\ s = 0 /\ env = MatchEnv
    /\ saved = None
    /\ calls = <<>>
    /\ fit_call = NoFit
    /\ err = ""
    /\ batch_in \in Batches
    /\ gamma_in \in Gammas
    /\ sync_count = 0 /\ episode_reward = 0 /\ picks = <<>>
    /\ pushed = <<>> /\ observer = None /\ feature = <<>> /\ fills = 0

ApiInitialize ==
    /\ pc = "api"
    /\ \E w \in Weights, fresh \in Weights : agent' = initialize(agent, w, fresh)
    /\ calls' = <<"initialize">>
    /\ fit_call' = NoFit
    /\ err' = ""
    /\ UNCHANGED <<trainer, pc, loopVars, saved, batch_in, gamma_in, runVars, unitVars>>

ApiUpdate ==
    /\ pc = "api"
    /\ calls' = <<"update">>
    /\ IF agent.model = None
       THEN /\ err' = "AttributeError"
            /\ fit_call' = NoFit
            /\ UNCHANGED agent
       ELSE /\ \E w \in Weights : agent' = update(agent, batch_in, gamma_in, w)
            /\ fit_call' = [x |-> [j \in 1 .. Len(batch_in) |-> batch_in[j].s],
                            y |-> update_targets(agent, batch_in, gamma_in)]
            /\ err' = ""
    /\ UNCHANGED <<trainer, pc, loopVars, saved, batch_in, gamma_in, runVars, unitVars>>

ApiUpdateTeacher ==
    /\ pc = "api"
    /\ calls' = <<"update_teacher">>
    /\ IF agent.teacher_model = None
       THEN /\ err' = "AttributeError"
            /\ UNCHANGED agent
       ELSE /\ agent' = update_teacher(agent)
            /\ err' = ""
    /\ fit_call' = NoFit
    /\ UNCHANGED <<trainer, pc, loopVars, saved, batch_in, gamma_in, runVars, unitVars>>

ApiEstimate ==
    /\ pc = "api"
    /\ calls' = <<"estimate">>
    /\ err' = IF agent.model = None THEN "AttributeError" ELSE ""
    /\ fit_call' = NoFit
    /\ UNCHANGED <<agent, trainer, pc, loopVars, saved, batch_in, gamma_in, runVars, unitVars>>

NextApi == ApiInitialize \/ ApiUpdate \/ ApiUpdateTeacher \/ ApiEstimate

SpecApi == InitApi /\ [][NextApi]_vars

(* ---------------------------------------------------------------------- *)
(* DeepQNetworkTrainer.train: train_loop driving the hooks                 *)
(* ---------------------------------------------------------------------- *)
\* initial_epsilon and final_epsilon: the defaults of __init__, and main's 0.2
EpsilonPairs == {<<Literal(1, 10), Literal(1, 1000)>>, <<Literal(2, 10), Literal(1, 1000)>>}

TrainerConfigs ==
    {DeepQNetworkTrainer(buffer_size, batch_size, 2, eps[1], eps[2],
                         teacher_update_freq, 2) :
        buffer_size \in 1 .. MaxBuffer, batch_size \in 1 .. MaxBatch,
        eps \in EpsilonPairs, teacher_update_freq \in {1, 2}}

\* the end-to-end scenario: capacity 5, batch size 2, teacher update every 3,
\* ten one-step episodes with the rewards listed
ScenarioTrainer == DeepQNetworkTrainer(5, 2, 2, Literal(1, 10), Literal(1, 1000), 3, 10)
ScenarioEnv == ScriptEnv(<<1, 0, 0, 1, 0, 1, 0, 0, 1, 0>>)

InitTrain ==
    /\ pc = "idle"
    /\ \/ trainer \in TrainerConfigs /\ env = MatchEnv
       \/ trainer = ScenarioTrainer /\ env = ScenarioEnv
    /\ agent = DeepQNetworkAgent(One, FALSE)
    /\ episode_count = 0 /\ i = 0 /\ step_count = 0 /\ s = 0
    /\ saved = None
    /\ calls = <<>>
    /\ fit_call = NoFit
    /\ err = ""
    /\ batch_in = <<>>
    /\ gamma_in = 0
    /\ sync_count = 0 /\ episode_reward = 0 /\ picks = <<>>
    /\ pushed = <<>> /\ observer = None /\ feature = <<>> /\ fills = 0

\* train(env, episode_count, render, test_mode), up to the first episode
Train ==
    /\ pc = "idle"
    /\ \E n \in EpisodeCounts(env), test_mode \in {TestMode(env)} :
          /\ agent' = DeepQNetworkAgent(One, test_mode)
          /\ trainer' = train_loop_begin(train_trainer(trainer, n))
          /\ episode_count' = n
    /\ i' = 0
    /\ step_count' = 0
    /\ pc' = "episode_begin"
    /\ calls' = <<>>
    /\ fit_call' = NoFit
    /\ sync_count' = 0
    /\ episode_reward' = 0
    /\ picks' = <<>>
    /\ UNCHANGED <<s, env, saved, err, batch_in, gamma_in, unitVars>>

\* s = env.reset(); step_count = 0; episode_begin(i, agent)
EpisodeBegin ==
    /\ pc = "episode_begin"
    /\ s' = EnvReset(env)
    /\ step_count' = 0
    /\ trainer' = episode_begin(trainer)
    /\ pc' = "step"
    /\ calls' = <<>>
    /\ fit_call' = NoFit
    /\ episode_reward' = 0
    /\ picks' = <<>>
    /\ UNCHANGED <<agent, episode_count, i, env, saved, err, batch_in, gamma_in,
                   sync_count, unitVars>>

\* one pass of the step loop: act, step the environment, store the
\* experience, buffer_full when the buffer first fills, step
EnvStep ==
    /\ pc = "step"
    /\ \E a \in policy(agent, s) :
       \E res \in {EnvStepResult(env, s, a)} :
       \E n_state \in {res.n_state}, reward \in {res.reward},
          done \in (IF step_count + 1 >= MaxSteps THEN {TRUE} ELSE res.done) :
       \E tr1 \in {[trainer EXCEPT !.experiences =
                      Append_maxlen(trainer.experiences,
                                    [s |-> s, a |-> a, r |-> reward,
                                     n_s |-> n_state, d |-> done],
                                    trainer.buffer_size)]} :
       \E full \in {~tr1.training /\ Len(tr1.experiences) = tr1.buffer_size} :
       \E w \in (IF full THEN Weights ELSE {None}),
          fresh \in (IF full THEN Weights ELSE {None}) :
       \E bf \in {IF full THEN buffer_full(tr1, agent, i, w, fresh)
                  ELSE [tr |-> tr1, ag |-> agent, calls |-> <<>>]} :
       \E tr2 \in {[bf.tr EXCEPT !.training = tr1.training \/ full]} :
          IF bf.ag.initialized /\ SamplePicks(Len(tr2.experiences), tr2.batch_size) = {}
          THEN \* random.sample raises ValueError: sample larger than population
               /\ trainer' = tr2
               /\ agent' = bf.ag
               /\ calls' = bf.calls
               /\ fit_call' = NoFit
               /\ err' = "ValueError"
               /\ pc' = "crashed"
               /\ env' = res.env
               /\ episode_reward' = episode_reward + reward
               /\ picks' = <<>>
               /\ UNCHANGED <<s, step_count>>
          ELSE \E p \in (IF bf.ag.initialized
                         THEN SamplePicks(Len(tr2.experiences), tr2.batch_size)
                         ELSE {<<>>}),
                  w2 \in (IF bf.ag.initialized THEN Weights ELSE {None}),
                  loss \in (IF bf.ag.initialized THEN Losses ELSE {0}) :
               \E st \in {step(tr2, bf.ag, SampleAt(tr2.experiences, p), w2, loss)} :
                  /\ trainer' = st.tr
                  /\ episode_reward' = episode_reward + reward
                  /\ picks' = p
                  /\ agent' = st.ag
                  /\ calls' = bf.calls \o st.calls
                  /\ fit_call' = st.fit
                  /\ err' = ""
                  /\ s' = n_state
                  /\ env' = res.env
                  /\ step_count' = step_count + 1
                  /\ pc' = IF done THEN "episode_end" ELSE "step"
    /\ UNCHANGED <<episode_count, i, saved, batch_in, gamma_in, sync_count, unitVars>>

\* episode_end(i, step_count, agent), then the next episode or the end
EpisodeEnd ==
    /\ pc = "episode_end"
    /\ IF step_count = 0 \/ (agent.initialized /\ trainer.training_episode = 0)
       THEN \* ZeroDivisionError
            /\ err' = "ZeroDivisionError"
            /\ pc' = "crashed"
            /\ calls' = <<>>
            /\ UNCHANGED <<trainer, agent, saved, i, sync_count>>
       ELSE \E ee \in {episode_end(trainer, agent, i, step_count)} :
            \E raised \in (IF agent.initialized THEN SinkOutcomes ELSE {""}) :
               IF write_log(trainer.training_count, ee.tr.loss,
                            Last(ee.tr.reward_log), raised) # ""
               THEN \* write_log raises: the rest of episode_end is not run
                    /\ trainer' = [trainer EXCEPT !.loss = ee.tr.loss,
                                                  !.reward_log = ee.tr.reward_log]
                    /\ err' = raised
                    /\ pc' = "crashed"
                    /\ calls' = <<>>
                    /\ UNCHANGED <<agent, saved, i, sync_count>>
               ELSE /\ trainer' = ee.tr
                    /\ agent' = ee.ag
                    /\ calls' = ee.calls
                    /\ saved' = IF ee.saved = {} THEN saved ELSE agent.model
                    /\ sync_count' = sync_count + Count(ee.calls, "update_teacher")
                    /\ err' = ""
                    /\ i' = i + 1
                    /\ pc' = IF i + 1 < episode_count THEN "episode_begin" ELSE "save"
    /\ fit_call' = NoFit
    /\ UNCHANGED <<episode_count, step_count, s, env, batch_in, gamma_in,
                   episode_reward, picks, unitVars>>

\* agent.save(path); return agent
Save ==
    /\ pc = "save"
    /\ calls' = <<"save">>
    /\ IF agent.model = None
       THEN \* None has no attribute save
            /\ err' = "AttributeError"
            /\ pc' = "crashed"
            /\ UNCHANGED saved
       ELSE /\ saved' = agent.model
            /\ err' = ""
            /\ pc' = "done"
    /\ fit_call' = NoFit
    /\ UNCHANGED <<agent, trainer, loopVars, batch_in, gamma_in, runVars, unitVars>>

Next == Train \/ EpisodeBegin \/ EnvStep \/ EpisodeEnd \/ Save

Spec == InitTrain /\ [][Next]_vars

(* ---------------------------------------------------------------------- *)
(* A caller driving the trainer's buffer and episode hooks by hand         *)
(* ---------------------------------------------------------------------- *)
MaxPush == MaxBuffer + 2

\* the experiences such a caller appends
UnitExperiences == {e \in Experience : e.s = 0 /\ e.a = 0 /\ e.n_s = 1 /\ ~e.d}

InitUnit ==
    /\ pc = "unit_ended"
    /\ \E buffer_size \in 1 .. MaxBuffer :
          trainer = train_loop_begin(train_trainer(
                       DeepQNetworkTrainer(buffer_size, 1, 2, Literal(1, 10),
                                           Literal(1, 1000), 1, 2),
                       MaxEpisodes))
    /\ agent = DeepQNetworkAgent(One, FALSE)
    /\ episode_count = MaxEpisodes /\ i = 0 /\ step_count = 0 /\ s = 0
    /\ env = MatchEnv
    /\ saved = None
    /\ calls = <<>>
    /\ fit_call = NoFit
    /\ err = ""
    /\ batch_in = <<>>
    /\ gamma_in = 0
    /\ sync_count = 0 /\ episode_reward = 0 /\ picks = <<>>
    /\ pushed = <<>> /\ observer = None /\ feature = <<>> /\ fills = 0

\* step_count = 0; episode_begin(i, agent)
UnitEpisodeBegin ==
    /\ pc \in {"unit_step", "unit_ended"}
    /\ i < episode_count
    /\ trainer' = episode_begin(trainer)
    /\ step_count' = 0
    /\ episode_reward' = 0
    /\ err' = ""
    /\ pc' = "unit_step"
    /\ UNCHANGED <<agent, episode_count, i, s, env, saved, calls, fit_call,
                   batch_in, gamma_in, sync_count, picks, unitVars>>

\* self.experiences.append(e); step_count += 1
UnitPush ==
    /\ pc = "unit_step"
    /\ Len(pushed) < MaxPush
    /\ \E e \in UnitExperiences :
          /\ trainer' = [trainer EXCEPT !.experiences =
                            Append_maxlen(trainer.experiences, e, trainer.buffer_size)]
          /\ pushed' = Append(pushed, e)
          /\ episode_reward' = episode_reward + e.r
    /\ step_count' = step_count + 1
    /\ UNCHANGED <<agent, pc, episode_count, i, s, env, saved, calls, fit_call,
                   err, batch_in, gamma_in, sync_count, picks, observer, feature,
                   fills>>

\* episode_end(i, step_count, agent) on the agent that is not initialized
UnitEpisodeEnd ==
    /\ pc = "unit_step"
    /\ IF step_count = 0
       THEN \* self.loss / step_count raises ZeroDivisionError
            /\ err' = "ZeroDivisionError"
            /\ UNCHANGED <<trainer, i>>
       ELSE /\ trainer' = episode_end(trainer, agent, i, step_count).tr
            /\ err' = ""
            /\ i' = i + 1
    /\ pc' = "unit_ended"
    /\ UNCHANGED <<agent, episode_count, step_count, s, env, saved, calls,
                   fit_call, batch_in, gamma_in, runVars, unitVars>>

NextUnit == UnitEpisodeBegin \/ UnitPush \/ UnitEpisodeEnd

SpecUnit == InitUnit /\ [][NextUnit]_vars

(* ---------------------------------------------------------------------- *)
(* CatcherObserver: the window of the last frame_count frames              *)
(* ---------------------------------------------------------------------- *)
MaxFrames == 3
MaxTransforms == MaxFrames + 1

\* the raw states the environment gives: images of one grey level
GreyLevels == {0, 128, 255}

\* the size the observer resizes to
Width == 1
Height == 2

CatcherObserver(width, height, frame_count) ==
    [width |-> width, height |-> height, frame_count |-> frame_count,
     frames |-> <<>>]

\* range(frame_count) appends of the same frame
RECURSIVE AppendCopies(_, _, _, _)
AppendCopies(q, frame, n, maxlen) ==
    IF n = 0 THEN q
    ELSE AppendCopies(Append_maxlen(q, frame, maxlen), frame, n - 1, maxlen)

\* grey, resize, scale to 0..1
Normalized(ob, state) ==
    [x \in 1 .. ob.width |-> [y \in 1 .. ob.height |-> FDiv(state * One, 255)]]

\* np.transpose(np.array(frames), (1, 2, 0)): (f, w, h) => (w, h, f)
Transposed(ob, frames) ==
    [x \in 1 .. ob.width |->
        [y \in 1 .. ob.height |-> [f \in 1 .. Len(frames) |-> frames[f][x][y]]]]

\* transform that appends the first frame once
transform_single_append(ob, state) ==
    LET normalized == Normalized(ob, state)
        frames == Append_maxlen(ob.frames, normalized, ob.frame_count)
    IN  [ob |-> [ob EXCEPT !.frames = frames],
         feature |-> Transposed(ob, frames),
         filled |-> Len(ob.frames) = 0]

transform(ob, state) ==
    LET normalized == Normalized(ob, state)
        frames == IF Len(ob.frames) = 0
                  THEN AppendCopies(ob.frames, normalized, ob.frame_count, ob.frame_count)
                  ELSE Append_maxlen(ob.frames, normalized, ob.frame_count)
    IN  [ob |-> [ob EXCEPT !.frames = frames],
         feature |-> Transposed(ob, frames),
         filled |-> Len(ob.frames) = 0]

InitObserver ==
    /\ pc = "observer"
    /\ \E frame_count \in 1 .. MaxFrames :
          observer = CatcherObserver(Width, Height, frame_count)
    /\ feature = <<>>
    /\ fills = 0
    /\ pushed = <<>>
    /\ agent = DeepQNetworkAgent(One, FALSE)
    /\ trainer = DeepQNetworkTrainer(1, 1, 0, One, One, 1, 1)
    /\ episode_count = 0 /\ i = 0 /\ step_count = 0 /\ s = 0 /\ env = MatchEnv
    /\ saved = None
    /\ calls = <<>>
    /\ fit_call = NoFit
    /\ err = ""
    /\ batch_in = <<>>
    /\ gamma_in = 0
    /\ sync_count = 0 /\ episode_reward = 0 /\ picks = <<>>

\* one call of transform(state)
Transform ==
    /\ pc = "observer"
    /\ Len(pushed) < MaxTransforms
    /\ \E state \in GreyLevels :
       \E res \in {transform(observer, state)} :
          /\ observer' = res.ob
          /\ feature' = res.feature
          /\ fills' = fills + (IF res.filled THEN 1 ELSE 0)
          /\ pushed' = Append(pushed, state)
    /\ UNCHANGED <<agent, trainer, pc, loopVars, saved, calls, fit_call, err,
                   batch_in, gamma_in, runVars>>

NextObserver == Transform

SpecObserver == InitObserver /\ [][NextObserver]_vars

(* ---------------------------------------------------------------------- *)
(* Properties                                                              *)
(* ---------------------------------------------------------------------- *)
\* C1: in every update, the target written at index a of experience j's row
\* is r when d holds, and r + gamma * max of the teacher model's prediction
\* for n_s otherwise.
C1_BellmanTarget ==
    [][(calls' = <<"update">> /\ err' = "") =>
          \A j \in 1 .. Len(batch_in) :
             LET e == batch_in[j]
             IN  fit_call'.y[j][e.a] =
                    IF e.d THEN e.r
                    ELSE e.r + gamma_in * NpMax(Predict(agent.teacher_model, e.n_s))]_vars

\* an update of a terminal and a non-terminal experience, whose bootstrap
\* value counts
C1_Witness ==
    /\ calls = <<"update">> /\ err = ""
    /\ Len(batch_in) = 2 /\ gamma_in > 0
    /\ batch_in[1].d /\ ~batch_in[2].d
    /\ fit_call.y[1][batch_in[1].a] = batch_in[1].r
    /\ fit_call.y[2][batch_in[2].a] > batch_in[2].r

\* C2: in every update, row j of the targets equals the trainable model's
\* prediction for s_j at every index other than a_j, also when experiences of
\* the batch share a state.
C2_OtherIndicesKept ==
    [][(calls' = <<"update">> /\ err' = "") =>
          \A j \in 1 .. Len(batch_in) : \A a \in Actions \ {batch_in[j].a} :
             fit_call'.y[j][a] = Predict(agent.model, batch_in[j].s)[a]]_vars

\* an update of two experiences with the same state and different actions
C2_Witness ==
    /\ calls = <<"update">> /\ err = ""
    /\ Len(batch_in) = 2
    /\ batch_in[1].s = batch_in[2].s /\ batch_in[1].a # batch_in[2].a
    /\ fit_call.y[1] # fit_call.y[2]

\* C3: right after update_teacher the teacher model has the trainable model's
\* parameters, and both give the same values for every input.
C3_TeacherSynced ==
    (calls # <<>> /\ Last(calls) = "update_teacher" /\ err = "") =>
       /\ agent.teacher_model = agent.model
       /\ \A st \in States : Predict(agent.teacher_model, st) = estimate(agent, st)

\* update_teacher has run on an initialized agent
C3_Witness ==
    /\ calls = <<"update_teacher">> /\ err = ""
    /\ agent.initialized /\ agent.model = 1 /\ agent.teacher_model = 1

\* C4: update and estimate leave the teacher model's parameters unchanged,
\* while update may change the trainable model's.
C4_TeacherFrozen ==
    [][calls' \in {<<"update">>, <<"estimate">>} =>
          agent'.teacher_model = agent.teacher_model]_vars

\* an update has left the trainable model different from the teacher
C4_Witness ==
    /\ calls = <<"update">> /\ err = ""
    /\ agent.model # agent.teacher_model

\* C5: right after initialize the teacher model has the trainable model's
\* parameters.
C5_TeacherCopiedAtInit ==
    (calls = <<"initialize">>) => agent.teacher_model = agent.model

\* C6: initialize on an initialized agent replaces neither the trainable model
\* nor the teacher.
C6_InitializeOnce ==
    [][(agent.initialized /\ calls' = <<"initialize">> /\ err' = "") =>
          /\ agent'.model = agent.model
          /\ agent'.teacher_model = agent.teacher_model]_vars

\* C7: train calls update and update_teacher only on an initialized agent,
\* and every step that completes on an initialized agent makes one update.
C7_UpdateOnlyInitialized ==
    [][/\ \A k \in 1 .. Len(calls') :
             calls'[k] \in {"update", "update_teacher"} =>
                \/ agent.initialized
                \/ \E j \in 1 .. (k - 1) : calls'[j] = "initialize"
       /\ (pc = "step" /\ pc' \in {"step", "episode_end"}) =>
             Count(calls', "update") = IF agent'.initialized THEN 1 ELSE 0]_vars

\* the step in which the buffer fills: initialize, then one update
C7_Witness ==
    /\ calls = <<"initialize", "update">>
    /\ pc \in {"step", "episode_end"} /\ agent.initialized

\* C8: a run that trained ends with epsilon equal to final_epsilon, and after
\* no episode end of training is epsilon below final_epsilon.
C8_DecayReachesFloor ==
    /\ (pc \in {"save", "done"} /\ agent.initialized) =>
          agent.epsilon = trainer.final_epsilon
    /\ (agent.initialized /\ pc \in {"episode_begin", "save", "done"}) =>
          agent.epsilon >= trainer.final_epsilon

\* C9: whenever episode_end divides by training_episode it is positive; a run
\* whose buffer never fills reaches its end with epsilon untouched and no
\* division error.
C9_DivisorPositive ==
    /\ (pc = "episode_end" /\ agent.initialized) => trainer.training_episode > 0
    /\ err # "ZeroDivisionError"
    /\ (pc \in {"save", "done"} /\ ~agent.initialized) => agent.epsilon = One

\* the buffer fills in the last episode of the budget
C9_Witness ==
    /\ pc = "episode_end" /\ agent.initialized
    /\ episode_count > 1 /\ i = episode_count - 1
    /\ trainer.training_episode = 1 /\ trainer.training_count = 0

\* the episodes ended since the buffer filled, the one it filled in included
TrainedEpisodes == i - (episode_count - trainer.training_episode)

InScenario == env.kind = "script" /\ trainer.buffer_size = 5

\* C10 (as amended): training_count is 0 while the buffer fills and then
\* counts the episode ends since, the episode in which the buffer filled
\* included; with capacity 5 and one-step episodes it is 6 after the 5
\* episodes that follow the filling.
C10_TrainingCount ==
    /\ (pc # "idle" /\ ~agent.initialized) => trainer.training_count = 0
    /\ agent.initialized => trainer.training_count = TrainedEpisodes
    /\ (InScenario /\ i = 10) => trainer.training_count = 6

\* the scenario after its ten episodes
C10_Witness ==
    /\ InScenario /\ pc = "done" /\ i = 10
    /\ trainer.training_count = 6

\* C10 (as claimed): with capacity 5 and one-step episodes, training_count is
\* 5 after the 5 episodes that follow the filling.
C10_CountFiveAfterFive ==
    (InScenario /\ i = 10) => trainer.training_count = 5

\* C11: an episode end that completes calls update_teacher once when the agent
\* is initialized and training_count, as that episode end finds it, is a
\* positive multiple of teacher_update_freq, and no other step calls it; with
\* an interval of 3, one update_teacher has happened by the end of the first
\* 5 training episode ends, and still one after the sixth.
C11_SyncCadence ==
    [][/\ Count(calls', "update_teacher") =
             IF /\ pc = "episode_end" /\ pc' # "crashed"
                /\ agent.initialized
                /\ trainer.training_count > 0
                /\ trainer.training_count % trainer.teacher_update_freq = 0
             THEN 1 ELSE 0
       /\ (InScenario /\ trainer'.training_count >= 5) => sync_count' = 1]_vars

\* the scenario after five training episode ends: the one update_teacher was
\* at training_count 3
C11_Witness ==
    /\ InScenario /\ trainer.training_count = 5
    /\ trainer.teacher_update_freq = 3
    /\ sync_count = 1

\* C12: at every episode end the reward appended to reward_log is the sum of
\* the rewards of the experiences the episode produced, whatever its length.
C12_EpisodeRewardLogged ==
    [][(pc = "episode_end" /\ pc' # "crashed") =>
          Last(trainer'.reward_log) = episode_reward]_vars

\* C13: episode_end on an episode of zero steps raises nothing.
C13_ZeroStepsNoError ==
    (pc = "unit_ended" /\ step_count = 0) => err = ""

\* C14: a train run that has ended all the episodes of its budget ends with the
\* agent's model saved and no error, whether or not the buffer filled.
C14_RunEndsSaved ==
    (episode_count > 0 /\ i = episode_count /\ pc \in {"done", "crashed"}) =>
       /\ pc = "done" /\ err = ""
       /\ saved # None /\ saved = agent.model

\* C15: every episode end of training completes whatever the writer of
\* write_log does, also when it raises: no error leaves the episode end,
\* training_count is incremented and epsilon decayed.
C15_SinkFailureSwallowed ==
    [][(pc = "episode_end" /\ agent.initialized /\ step_count > 0) =>
          /\ err' = ""
          /\ pc' \in {"episode_begin", "save"}
          /\ trainer'.training_count = trainer.training_count + 1
          /\ agent'.epsilon <= agent.epsilon]_vars

\* C16: after N appends to a buffer of capacity C the buffer holds min(N, C)
\* experiences, never more than C, and they are the last min(N, C) appended,
\* in the order of their appends.
C16_BufferFIFO ==
    LET N == Len(pushed)
        C == trainer.buffer_size
        k == IF N < C THEN N ELSE C
    IN  /\ Len(trainer.experiences) = k
        /\ Len(trainer.experiences) <= C
        /\ trainer.experiences = SubSeq(pushed, N - k + 1, N)

\* four appends to a buffer of capacity 2: the first two are gone, the third
\* is now the oldest
C16_Witness ==
    /\ trainer.buffer_size = 2 /\ Len(pushed) = 4
    /\ pushed[1].r = 1 /\ pushed[2].r = 1 /\ pushed[3].r = 0 /\ pushed[4].r = 1
    /\ trainer.experiences = <<pushed[3], pushed[4]>>

\* C17: every step that samples does so from a buffer holding buffer_size
\* experiences and draws batch_size distinct positions of it, whose elements
\* are the batch trained on; when batch_size exceeds buffer_size the step in
\* which the buffer fills raises ValueError at its sample, and no update is
\* ever made.
C17_SampleFromFullBuffer ==
    [][pc = "step" =>
          /\ Count(calls', "update") > 0 =>
                /\ Len(trainer'.experiences) = trainer'.buffer_size
                /\ trainer'.batch_size <= trainer'.buffer_size
                /\ Len(picks') = trainer'.batch_size
                /\ \A j \in 1 .. Len(picks') :
                      /\ picks'[j] \in 1 .. Len(trainer'.experiences)
                      /\ \A k \in 1 .. Len(picks') : j # k => picks'[j] # picks'[k]
                /\ fit_call'.x = [j \in 1 .. Len(picks') |->
                                     trainer'.experiences[picks'[j]].s]
          /\ (agent'.initialized /\ trainer'.batch_size > trainer'.buffer_size) =>
                /\ ~agent.initialized
                /\ err' = "ValueError" /\ pc' = "crashed"
                /\ Count(calls', "update") = 0]_vars

\* a batch of two drawn from a full buffer of two, newest first
C17_Witness ==
    /\ Count(calls, "update") = 1 /\ err = ""
    /\ trainer.buffer_size = 2 /\ trainer.batch_size = 2
    /\ Len(trainer.experiences) = 2
    /\ picks = <<2, 1>>
    /\ trainer.experiences[1].s # trainer.experiences[2].s
    /\ fit_call.x = <<trainer.experiences[2].s, trainer.experiences[1].s>>

\* C18: buffer_full runs in exactly the step in which the buffer of a run that
\* is not yet training reaches buffer_size, so at most once per run; that step
\* initializes the agent, sets epsilon from 1.0 to initial_epsilon and
\* training_episode to episode_count - i; until then epsilon is 1.0 and every
\* action may be picked.
C18_FillingToTraining ==
    [][/\ Count(calls', "initialize") =
             IF /\ pc = "step" /\ ~trainer.training
                /\ Len(trainer'.experiences) = trainer.buffer_size
             THEN 1 ELSE 0
       /\ Count(calls', "initialize") > 0 =>
             /\ ~agent.initialized /\ agent'.initialized
             /\ trainer'.training
             /\ agent.epsilon = One
             /\ agent'.epsilon = trainer.initial_epsilon
             /\ trainer'.training_episode = episode_count - i
       /\ (pc = "step" /\ ~agent.initialized) =>
             /\ agent.epsilon = One
             /\ policy(agent, s) = Actions]_vars

\* the buffer has filled in the second of three episodes
C18_Witness ==
    /\ Count(calls, "initialize") = 1
    /\ episode_count = 3 /\ i = 1
    /\ trainer.training /\ trainer.training_episode = 2
    /\ agent.initialized /\ agent.epsilon = trainer.initial_epsilon
    /\ agent.epsilon < One

\* C19: with initial_epsilon >= final_epsilon, an episode end of training
\* never raises epsilon and leaves it between final_epsilon and
\* initial_epsilon, no other step of training changes it, and an episode end
\* before training leaves epsilon unchanged.
C19_EpsilonAnnealed ==
    [][trainer.initial_epsilon >= trainer.final_epsilon =>
          /\ (pc = "episode_end" /\ agent.initialized) =>
                agent'.epsilon <= agent.epsilon
          /\ (pc = "episode_end" /\ ~agent.initialized) =>
                agent'.epsilon = agent.epsilon
          /\ (pc # "episode_end" /\ agent.initialized) =>
                agent'.epsilon = agent.epsilon
          /\ agent'.initialized =>
                /\ trainer.final_epsilon <= agent'.epsilon
                /\ agent'.epsilon <= trainer.initial_epsilon]_vars

\* two episode ends of training have lowered epsilon, the floor not reached
C19_Witness ==
    /\ agent.initialized /\ pc = "episode_begin"
    /\ trainer.training_count = 2
    /\ trainer.final_epsilon < agent.epsilon
    /\ agent.epsilon < FSub(trainer.initial_epsilon,
                            FDiv(FSub(trainer.initial_epsilon, trainer.final_epsilon), 3))

\* C20: after k >= 1 calls of transform the window holds frame_count frames:
\* the frames of the last frame_count calls, oldest first, preceded by copies
\* of the first frame while fewer calls than that were made; the feature
\* returned has shape (width, height, frame_count) with the window's frames
\* as its channels in that order; the fill-with-copies branch has run once.
C20_FrameWindow ==
    LET k == Len(pushed)
        fc == observer.frame_count
        from(j) == IF k - fc + j < 1 THEN 1 ELSE k - fc + j
    IN  (pc = "observer" /\ k >= 1) =>
           /\ Len(observer.frames) = fc
           /\ \A j \in 1 .. fc :
                 observer.frames[j] = Normalized(observer, pushed[from(j)])
           /\ Len(feature) = observer.width
           /\ \A x \in 1 .. observer.width :
                 /\ Len(feature[x]) = observer.height
                 /\ \A y \in 1 .. observer.height :
                       /\ Len(feature[x][y]) = fc
                       /\ \A f \in 1 .. fc :
                             feature[x][y][f] = observer.frames[f][x][y]
           /\ fills = 1

\* a window of three after four calls: the copies of the first frame are gone
C20_Witness ==
    /\ pc = "observer" /\ observer.frame_count = 3
    /\ pushed = <<0, 128, 255, 128>>
    /\ feature[1][1] = <<FDiv(128 * One, 255), FDiv(255 * One, 255), FDiv(128 * One, 255)>>
    /\ fills = 1

====
